---- MODULE Spec2Model ----
(***************************************************************************)
(* A model of pytorch_points/network: geo_operations.py (CotLaplacian,     *)
(* cotangent, mean-value coordinates) and operations.py (group_knn,        *)
(* gather / scatter_add).                                                  *)
(*                                                                         *)
(* Meshes, point sets and weight rows are sequences (1-based positions);   *)
(* the index VALUES stored in face and index tensors stay 0-based as in    *)
(* the source, so element i of such a tensor t is t[i + 1].  The tensors   *)
(* handed to gather and scatter_add are records with 0-based positions.    *)
(***************************************************************************)
EXTENDS Integers, Sequences, FiniteSets, TLC

VARIABLES
    \* one CotLaplacian instance and the forward calls made on it
    L,          \* self.L: None, or the assembled operator
    pc,         \* per caller: where its forward call stands
    callV,      \* per caller: the V argument of its call
    callF,      \* per caller: the F argument of its call (None when omitted)
    sawNone,    \* per caller: what the test `self.L is None` (line 273) read
    log,        \* the finished calls, in order of completion
    writers,    \* the callers that have stored self.L (line 258)
    lateWrite,  \* a store to self.L happened after some call read it as assembled
    \* the assembly arithmetic applied to a mesh
    opV, opF, opL, opIn, opOut,
    \* one call each (arguments, intermediate tensors, results), as a record
    gs,         \* gather_points and its backward, scatter_add
    knn,        \* group_knn
    mvc2,       \* mean_value_coordinates (2D polygon)
    mvc3,       \* mean_value_coordinates_3D
    knnPair,    \* two group_knn calls that share a batch element
    fps,        \* furthest_point_sample
    ball,       \* ball_query
    svc,        \* KNN.forward / faiss_knn and the index service it drives
    qg,         \* QueryAndGroup.forward
    svd         \* batch_svd

cotVars == <<L, pc, callV, callF, sawNone, log, writers, lateWrite>>
opVars == <<opV, opF, opL, opIn, opOut>>
\* the calls modelled further down, one record each
callVars == <<knnPair, fps, ball, svc, qg, svd>>
vars == <<cotVars, opVars, gs, knn, mvc2, mvc3, callVars>>

None == <<>>

CallsParked ==
    /\ knnPair = None /\ fps = None /\ ball = None /\ svc = None
    /\ qg = None /\ svd = None

(***************************************************************************)
(* Floating-point values.  A value is a pair <<n, d>>:                     *)
(*   d > 0        the finite number n/d (kept in lowest terms),            *)
(*   <<1, 0>>     +inf,   <<-1, 0>>  -inf,   <<0, 0>>  NaN.                *)
(* Arithmetic follows IEEE-754 for the special values (x/0, inf-inf, 0/0); *)
(* finite results are exact, i.e. rounding is not modelled.                *)
(***************************************************************************)
Abs(x) == IF x < 0 THEN -x ELSE x

RECURSIVE Gcd(_, _)
Gcd(a, b) == IF b = 0 THEN a ELSE Gcd(b, a % b)

Sgn(x) == IF x > 0 THEN 1 ELSE IF x < 0 THEN -1 ELSE 0

NaN == <<0, 0>>
PosInf == <<1, 0>>
NegInf == <<-1, 0>>
Zero == <<0, 1>>
One == <<1, 1>>

\* the float n/d for integers n, d (d of any sign; d = 0 gives inf or NaN)
Frac(n, d) ==
    IF d = 0 THEN <<Sgn(n), 0>>
    ELSE LET g == Gcd(Abs(n), Abs(d))
             s == IF d < 0 THEN -1 ELSE 1
         IN  <<(s * n) \div g, (s * d) \div g>>

Num(n) == <<n, 1>>
IsNaN(a) == a = NaN
IsInf(a) == a[2] = 0 /\ a[1] # 0
IsFinite(a) == a[2] > 0

FAdd(a, b) ==
    IF IsNaN(a) \/ IsNaN(b) THEN NaN
    ELSE IF IsInf(a) /\ IsInf(b) THEN (IF a = b THEN a ELSE NaN)
    ELSE IF IsInf(a) THEN a
    ELSE IF IsInf(b) THEN b
    ELSE Frac(a[1] * b[2] + b[1] * a[2], a[2] * b[2])

FNeg(a) == <<-a[1], a[2]>>
FSub(a, b) == FAdd(a, FNeg(b))

FMul(a, b) ==
    IF IsNaN(a) \/ IsNaN(b) THEN NaN
    ELSE IF IsInf(a) \/ IsInf(b)
         THEN <<Sgn(a[1]) * Sgn(b[1]), 0>>     \* inf * 0 = NaN
    ELSE Frac(a[1] * b[1], a[2] * b[2])

FDiv(a, b) ==
    IF IsNaN(a) \/ IsNaN(b) THEN NaN
    ELSE IF IsInf(a) THEN (IF IsInf(b) THEN NaN
                           ELSE <<a[1] * (IF b[1] < 0 THEN -1 ELSE 1), 0>>)
    ELSE IF IsInf(b) THEN Zero
    ELSE Frac(a[1] * b[2], a[2] * b[1])

\* IEEE comparison: every comparison with NaN is false
FEq(a, b) == ~IsNaN(a) /\ ~IsNaN(b) /\ a = b

\* s[1] + ... + s[n], left to right
RECURSIVE FSumTo(_, _)
FSumTo(s, n) == IF n = 0 THEN Zero ELSE FAdd(FSumTo(s, n - 1), s[n])

FSum(s) == FSumTo(s, Len(s))

\* A sequence given by a rule [i \in 1..n |-> e] is re-evaluated by TLC at every
\* access; Seq1 and Seq2 turn a vector and a matrix into explicit tuples (the
\* same values, computed once).
RECURSIVE Tup(_, _)
Tup(s, n) == IF n = 0 THEN <<>> ELSE Append(Tup(s, n - 1), s[n])

Seq1(s) == Tup(s, Len(s))
Seq2(M) == Tup([i \in 1..Len(M) |-> Seq1(M[i])], Len(M))

\* exact square root of a perfect square
ISqrt(x) == CHOOSE r \in 0..x : r * r = x

(***************************************************************************)
(* geo_operations.py: cotangent(V, F), for one batch element.              *)
(* V: sequence of points <<x, y, z>>; F: sequence of faces <<a, b, c>>.    *)
(***************************************************************************)
SqDist(p, q) ==
    (p[1] - q[1]) * (p[1] - q[1]) + (p[2] - q[2]) * (p[2] - q[2])
        + (p[3] - q[3]) * (p[3] - q[3])

\* 16 * sp*(sp-l1)*(sp-l2)*(sp-l3) from the squared edge lengths
Heron16(a2, b2, c2) ==
    2 * (a2 * b2 + b2 * c2 + c2 * a2) - (a2 * a2 + b2 * b2 + c2 * c2)

\* one face: <<cot23, cot31, cot12>> / A / 4 with A = 2*sqrt(sp(sp-l1)(sp-l2)(sp-l3))
cotangentFace(Vb, face) ==
    LET v1 == Vb[face[1] + 1]
        v2 == Vb[face[2] + 1]
        v3 == Vb[face[3] + 1]
        l1sq == SqDist(v2, v3)
        l2sq == SqDist(v3, v1)
        l3sq == SqDist(v1, v2)
        A == ISqrt(Heron16(l1sq, l2sq, l3sq)) \div 2
        cot23 == l2sq + l3sq - l1sq
        cot31 == l1sq + l3sq - l2sq
        cot12 == l1sq + l2sq - l3sq
        q(c) == FDiv(FDiv(Num(c), Num(A)), Num(4))
    IN  <<q(cot23), q(cot31), q(cot12)>>

\* C: B x F x 3
cotangent(V, F) ==
    Seq2([b \in 1..Len(F) |-> [f \in 1..Len(F[b]) |-> cotangentFace(V[b], F[b][f])]])

(***************************************************************************)
(* geo_operations.py: the arithmetic of CotLaplacian.computeLaplacian      *)
(* (lines 239-256): the (B*N) x (B*N) operator built from V and F.         *)
(* A matrix is a sequence of rows, each a sequence of values.              *)
(***************************************************************************)
\* lines 243-248 and 252: the (row, col, value) triples handed to csr_matrix,
\* face indices offset by b*N; rows = batchF[:, [1,2,0]], cols = batchF[:, [2,0,1]]
cooEntries(V, F) ==
    LET B == Len(F)
        N == Len(V[1])
        Fc == Len(F[1])
        C == cotangent(V, F)
        entry(b, f, k) ==
            LET face == F[b][f]
                off == (b - 1) * N
                r == face[(k % 3) + 1] + off
                c == face[((k + 1) % 3) + 1] + off
            IN  [row |-> r, col |-> c, val |-> C[b][f][k]]
    IN  Seq1([e \in 1..(B * Fc * 3) |->
            entry(((e - 1) \div (Fc * 3)) + 1,
                  (((e - 1) % (Fc * 3)) \div 3) + 1,
                  ((e - 1) % 3) + 1)])

\* sparse.csr_matrix((data, (rows, cols)), shape=(BN, BN)): duplicates are summed
csrMatrix(coo, BN) ==
    Seq2([i \in 1..BN |-> [j \in 1..BN |->
        LET Here(e) == e.row = i - 1 /\ e.col = j - 1
            hits == SelectSeq(coo, Here)
        IN  FSum([h \in 1..Len(hits) |-> hits[h].val])]])

Transpose(M) == Seq2([i \in 1..Len(M) |-> [j \in 1..Len(M) |-> M[j][i]]])

MatAdd(M1, M2) ==
    Seq2([i \in 1..Len(M1) |-> [j \in 1..Len(M1) |-> FAdd(M1[i][j], M2[i][j])]])

\* np.sum(L, 1)
RowSums(M) == Seq1([i \in 1..Len(M) |-> FSum(M[i])])

\* sparse.diags(d)
Diags(d) == Seq2([i \in 1..Len(d) |-> [j \in 1..Len(d) |-> IF i = j THEN d[i] ELSE Zero]])

MatSub(M1, M2) ==
    Seq2([i \in 1..Len(M1) |-> [j \in 1..Len(M1) |-> FSub(M1[i][j], M2[i][j])]])

\* line 253 without the transpose
symmetrize_NoTranspose(L0) == MatAdd(L0, L0)

\* line 253: L = L + L.T
symmetrize(L0) == MatAdd(L0, Transpose(L0))

\* lines 255-256: M = diags(sum(L, 1)); L = L - M
subtractRowSums(L1) == MatSub(L1, Diags(RowSums(L1)))

\* the value stored in self.L at line 258
LaplacianMatrix(V, F) ==
    LET BN == Len(V) * Len(V[1])
    IN  subtractRowSums(symmetrize(csrMatrix(cooEntries(V, F), BN)))

\* V.reshape(-1, 3): the B*N points stacked along the batch
batchPoints(V) ==
    LET N == Len(V[1])
    IN  Seq1([i \in 1..(Len(V) * N) |-> V[((i - 1) \div N) + 1][((i - 1) % N) + 1]])

\* L.dot(x) for x of shape (BN, 3)
MatDot(M, x) ==
    Seq2([i \in 1..Len(M) |-> [d \in 1..3 |->
        FSum([j \in 1..Len(M) |-> FMul(M[i][j], Num(x[j][d]))])]])

\* _CotLaplacianBatchLx.forward (lines 283-288) on the stacked points
cotLx_forward(x, Lop) == MatDot(Lop, x)

\* _CotLaplacianBatchLx.backward (lines 291-305): L.dot(grad_out)
cotLx_backward(Lop, g) == MatDot(Lop, g)

(***************************************************************************)
(* Input meshes.  Points lie in the plane z = 0 on the integer grid, so    *)
(* that every edge length squared and every triangle area is exact.        *)
(***************************************************************************)
MaxFaces == 2

Layouts ==
    { << <<0,0,0>>, <<1,0,0>>, <<0,1,0>> >>,     \* right triangle
      << <<0,0,0>>, <<2,0,0>>, <<0,1,0>> >>,     \* scalene
      << <<0,0,0>>, <<1,0,0>>, <<2,0,0>> >>,     \* three collinear points
      << <<0,0,0>>, <<0,0,0>>, <<1,0,0>> >> }    \* two vertices at one position

\* faces over three vertices: both orientations, a rotation, and faces that
\* repeat a vertex in each position
FaceSet ==
    { <<0,1,2>>, <<1,2,0>>, <<0,2,1>>, <<0,0,1>>, <<0,1,0>>, <<1,0,0>>, <<1,2,2>>, <<2,2,2>> }

\* sequences of exactly n elements of S
SeqN(S, n) == [1..n -> S]

BatchSizes == {1, 2}

\* (V, F) with B * F_count <= MaxFaces; the batch elements share one layout
Meshes ==
    UNION { UNION { { <<[b \in 1..B |-> lay], F>> :
                        F \in SeqN(SeqN(FaceSet, Fc), B) } :
                    lay \in Layouts } :
            <<B, Fc>> \in { x \in BatchSizes \X (1..MaxFaces) : x[1] * x[2] <= MaxFaces } }

(***************************************************************************)
(* The names bound in the namespace of module geo_operations.py when one   *)
(* of its functions runs: the imports of lines 1-5, PI, and the module's   *)
(* own classes and functions.  A global name a function body uses that is  *)
(* not in this set raises NameError at the line that uses it.              *)
(***************************************************************************)
\* lines 1-7
ImportedNames ==
    { "torch", "sampling", "linalg", "check_values", "save_grad", "saved_variables",
      "batch_svd", "normalize", "dot_product", "scatter_add", "PI" }

\* the class and def statements of the module
DefinedNames ==
    { "FurthestPointSampling", "furthest_point_sample", "normalize_point_batch",
      "normalize_point_batch_to_box", "batch_normals", "pointUniformLaplacian",
      "UniformLaplacian", "convert_as", "CotLaplacian", "_CotLaplacianBatchLx",
      "_cotLx", "cotangent", "mean_value_coordinates_3D", "mean_value_coordinates",
      "edge_vertex_indices", "compute_face_normals_and_areas", "get_edge_lengths",
      "get_normals", "dihedral_angle" }

\* the namespace had the module also imported numpy as np and scipy's sparse
ModuleGlobals_WithNumpy == ImportedNames \cup DefinedNames \cup {"np", "sparse"}

ModuleGlobals == ImportedNames \cup DefinedNames

\* the first of `names` (in order of use) that is unbound, or None
FirstUnbound(names) ==
    LET bad == { i \in 1..Len(names) : names[i] \notin ModuleGlobals }
    IN  IF bad = {} THEN None
        ELSE <<names[CHOOSE i \in bad : \A j \in bad : i <= j]>>

(***************************************************************************)
(* CotLaplacian.computeLaplacian(V, F), lines 233-258: what the call       *)
(* raises, or the operator it stores in self.L.  The global names its body *)
(* loads are, in order: cotangent (239), np (243, 255), sparse (252, 255). *)
(***************************************************************************)
computeLaplacian(V, F) ==
    LET unbound == FirstUnbound(<<"cotangent", "np", "sparse">>)
    IN  IF unbound # None
        THEN [raised |-> "NameError", name |-> unbound[1], stored |-> None]
        ELSE [raised |-> "no", name |-> "", stored |-> LaplacianMatrix(V, F)]

\* variant: self.L is stored before the steps that can raise, so a failed
\* assembly leaves an unfinished operator behind
selfL_after_StoredEarly(Lold, cl) ==
    IF cl.raised = "no" THEN cl.stored ELSE << <<Zero>> >>

\* self.L after computeLaplacian was called with self.L = Lold and did cl: the
\* store of line 258 is the last statement, reached only if nothing raised
selfL_after(Lold, cl) ==
    IF cl.raised = "no" THEN cl.stored ELSE Lold

\* line 277: _cotLx(V, self.L); scipy's dot raises ValueError on a shape mismatch
cotLx(V, Lop) ==
    IF Len(Lop) # Len(V) * Len(V[1])
    THEN [raised |-> "ValueError", Lx |-> None]
    ELSE [raised |-> "no", Lx |-> cotLx_forward(batchPoints(V), Lop)]

(***************************************************************************)
(* The forward calls on one instance.  Callers are the (at most two)       *)
(* calls in flight; a caller that has returned may call again.             *)
(***************************************************************************)
MaxCalls == 3

Callers == {1, 2}

\* the arguments the calls are made with
CallV ==
    { << << <<0,0,0>>, <<1,0,0>>, <<0,1,0>> >> >>,      \* a triangle
      << << <<0,0,0>>, <<2,0,0>>, <<0,1,0>> >> >>,      \* another geometry
      << << <<1,1,1>>, <<1,1,1>>, <<1,1,1>> >> >> }     \* a constant field

CallF == { None, << << <<0,1,2>> >> >>, << << <<0,2,1>> >> >> }

\* the variables of the other parts of the model stay as they are
CotFrame == UNCHANGED <<opVars, gs, knn, mvc2, mvc3, callVars>>

OpParked ==
    /\ opV = None /\ opF = None /\ opL = None /\ opIn = None /\ opOut = None

CotInit ==
    /\ OpParked
    /\ gs = None /\ knn = None /\ mvc2 = None /\ mvc3 = None /\ CallsParked
    /\ L = None
    /\ pc = [t \in Callers |-> "idle"]
    /\ callV = [t \in Callers |-> None]
    /\ callF = [t \in Callers |-> None]
    /\ sawNone = [t \in Callers |-> FALSE]
    /\ log = <<>>
    /\ writers = {}
    /\ lateWrite = FALSE

\* number of calls started so far
Started == Len(log) + Cardinality({t \in Callers : pc[t] # "idle"})

\* forward(V, F) is entered
Call(t, V, F) ==
    /\ pc[t] = "idle"
    /\ Started < MaxCalls
    /\ pc' = [pc EXCEPT ![t] = "l273"]
    /\ callV' = [callV EXCEPT ![t] = V]
    /\ callF' = [callF EXCEPT ![t] = F]
    /\ UNCHANGED <<L, sawNone, log, writers, lateWrite>>
    /\ CotFrame

\* line 273: if self.L is None
Forward_273(t) ==
    /\ pc[t] = "l273"
    /\ sawNone' = [sawNone EXCEPT ![t] = (L = None)]
    /\ pc' = [pc EXCEPT ![t] = "l274"]
    /\ UNCHANGED <<L, callV, callF, log, writers, lateWrite>>
    /\ CotFrame

\* lines 274-278: assert, computeLaplacian (which stores self.L at line 258),
\* then _cotLx(V, self.L)
Forward_274(t) ==
    /\ pc[t] = "l274"
    /\ LET V == callV[t]
           F == callF[t]
           asserted == sawNone[t] /\ F = None
           cl == IF sawNone[t] /\ ~asserted THEN computeLaplacian(V, F)
                 ELSE [raised |-> "no", name |-> "", stored |-> None]
           stores == sawNone[t] /\ ~asserted /\ cl.raised = "no"
           Lnew == IF sawNone[t] /\ ~asserted THEN selfL_after(L, cl) ELSE L
           ap == IF asserted \/ cl.raised # "no" THEN [raised |-> "no", Lx |-> None]
                 ELSE cotLx(V, Lnew)
           outcome == IF asserted THEN "AssertionError"
                      ELSE IF cl.raised # "no" THEN cl.raised
                      ELSE IF ap.raised # "no" THEN ap.raised
                      ELSE "returned"
           someoneReadAssembled ==
               \/ \E u \in Callers \ {t} : pc[u] = "l274" /\ ~sawNone[u]
               \/ \E i \in 1..Len(log) : ~log[i].sawNone
       IN  /\ L' = Lnew
           /\ writers' = IF stores THEN writers \cup {t} ELSE writers
           /\ lateWrite' = (lateWrite \/ (stores /\ someoneReadAssembled))
           /\ log' = Append(log, [caller |-> t, hadF |-> F # None, sawNone |-> sawNone[t],
                                  assembled |-> stores, outcome |-> outcome,
                                  used |-> IF outcome = "returned" THEN Lnew ELSE None,
                                  Lx |-> ap.Lx, V |-> V])
    /\ pc' = [pc EXCEPT ![t] = "idle"]
    /\ UNCHANGED <<callV, callF, sawNone>>
    /\ CotFrame

CotNext ==
    \/ \E t \in Callers, V \in CallV, F \in CallF : Call(t, V, F)
    \/ \E t \in Callers : Forward_273(t)
    \/ \E t \in Callers : Forward_274(t)

SpecCot == CotInit /\ [][CotNext]_vars

(***************************************************************************)
(* C1: on one instance the operator is assembled exactly once, during the  *)
(* first forward call; the instance never returns to the uninitialized     *)
(* state and every later call applies that same cached operator without    *)
(* reassembling it.  Stated for a first call that is given F.              *)
(***************************************************************************)
C1_AssembledOnceInFirstCall ==
    (Len(log) >= 1 /\ log[1].hadF) =>
        /\ log[1].assembled
        /\ L # None
        /\ \A i \in 2..Len(log) :
              /\ ~log[i].assembled
              /\ log[i].outcome = "returned" => log[i].used = L

ConstantField(BN) == [i \in 1..BN |-> <<1, 2, 3>>]

UnitField(BN, k) == [i \in 1..BN |-> IF i = k THEN <<1, 0, 0>> ELSE <<0, 0, 0>>]

OpFrame == UNCHANGED <<cotVars, gs, knn, mvc2, mvc3, callVars>>

CotParked ==
    /\ L = None /\ pc = None /\ callV = None /\ callF = None /\ sawNone = None
    /\ log = None /\ writers = None /\ lateWrite = None

OpInit ==
    /\ CotParked
    /\ gs = None /\ knn = None /\ mvc2 = None /\ mvc3 = None /\ CallsParked
    /\ \E m \in Meshes : opV = m[1] /\ opF = m[2]
    /\ opL = None
    /\ opIn = None
    /\ opOut = None

\* lines 239-258 of computeLaplacian
OpAssemble ==
    /\ opL = None
    /\ opL' = LaplacianMatrix(opV, opF)
    /\ UNCHANGED <<opV, opF, opIn, opOut>>
    /\ OpFrame

\* _CotLaplacianBatchLx.forward: Lx = L.dot(batchV)
OpForward(x) ==
    /\ opL # None
    /\ opIn = None
    /\ opIn' = [pass |-> "forward", x |-> x]
    /\ opOut' = cotLx_forward(x, opL)
    /\ UNCHANGED <<opV, opF, opL>>
    /\ OpFrame

\* _CotLaplacianBatchLx.backward: Lg = L.dot(grad_out)
OpBackward(g) ==
    /\ opL # None
    /\ opIn = None
    /\ opIn' = [pass |-> "backward", x |-> g]
    /\ opOut' = cotLx_backward(opL, g)
    /\ UNCHANGED <<opV, opF, opL>>
    /\ OpFrame

OpNext ==
    \/ OpAssemble
    \/ \E x \in {batchPoints(opV), ConstantField(Len(opV) * Len(opV[1]))} : OpForward(x)
    \/ \E k \in 1..(Len(opV) * Len(opV[1])) : OpBackward(UnitField(Len(opV) * Len(opV[1]), k))

SpecOperator == OpInit /\ [][OpNext]_vars

IsZeroField(y) == \A i \in 1..Len(y) : \A d \in 1..3 : FEq(y[i][d], Zero)

(***************************************************************************)
(* C3: for every mesh, every row of the assembled operator sums to zero,   *)
(* and applying the operator to a field in which all vertices are equal    *)
(* yields the zero vector.                                                 *)
(***************************************************************************)
C3_RowsSumToZero ==
    opL # None =>
        /\ \A i \in 1..Len(opL) : FEq(RowSums(opL)[i], Zero)
        /\ (opIn # None /\ opIn.pass = "forward" /\ opIn.x = ConstantField(Len(opL)))
              => IsZeroField(opOut)

RECURSIVE Positions(_)
Positions(shape) ==
    IF shape = <<>> THEN { <<>> }
    ELSE { <<i>> \o r : i \in 0..(shape[1] - 1), r \in Positions(Tail(shape)) }

\* torch.full(size, fill)
full(size, fill) == [shape |-> size, data |-> [p \in Positions(size) |-> fill]]

\* torch.zeros(size)
zeros(size) == full(size, Zero)

ones_like(t) == full(t.shape, One)

\* sum of f over the positions in S
RECURSIVE FSumOver(_, _)
FSumOver(f, S) ==
    IF S = {} THEN Zero
    ELSE LET p == CHOOSE q \in S : TRUE
         IN  FAdd(f[p], FSumOver(f, S \ {p}))

\* idx.max()
RECURSIVE MaxOf(_)
MaxOf(S) ==
    LET x == CHOOSE y \in S : TRUE
    IN  IF S = {x} THEN x
        ELSE LET m == MaxOf(S \ {x}) IN IF x > m THEN x ELSE m

\* where element p of src goes: position p with component dim replaced by idx[p]
Target(idx, dim, p) == [p EXCEPT ![dim + 1] = idx.data[p]]

\* the argument checks torch makes before scattering along dim
ScatterArgsOk(out, dim, idx, src) ==
    /\ Len(idx.shape) = Len(out.shape)
    /\ Len(idx.shape) = Len(src.shape)
    /\ dim \in 0..(Len(out.shape) - 1)
    /\ \A d \in 1..Len(idx.shape) :
          /\ idx.shape[d] <= src.shape[d]
          /\ (d # dim + 1) => idx.shape[d] <= out.shape[d]
    /\ \A p \in Positions(idx.shape) : idx.data[p] \in 0..(out.shape[dim + 1] - 1)

\* Tensor.scatter_(dim, idx, src): the element is stored, not accumulated
scatter_(out, dim, idx, src) ==
    IF ~ScatterArgsOk(out, dim, idx, src)
    THEN [raised |-> "RuntimeError", out |-> None]
    ELSE [raised |-> "no",
          out |-> [shape |-> out.shape,
                   data |-> [q \in Positions(out.shape) |->
                               LET from == { p \in Positions(idx.shape) :
                                                Target(idx, dim, p) = q }
                               IN  IF from = {} THEN out.data[q]
                                   ELSE src.data[CHOOSE p \in from : TRUE]]]]

\* Tensor.scatter_add_(dim, idx, src), line 472
scatter_add_(out, dim, idx, src) ==
    IF ~ScatterArgsOk(out, dim, idx, src)
    THEN [raised |-> "RuntimeError", out |-> None]
    ELSE [raised |-> "no",
          out |-> [shape |-> out.shape,
                   data |-> [q \in Positions(out.shape) |->
                               LET from == { p \in Positions(idx.shape) :
                                                Target(idx, dim, p) = q }
                               IN  FAdd(out.data[q], FSumOver(src.data, from))]]]

\* ScatterAdd.forward, lines 469-475
ScatterAdd_forward(src, idx, dim, out_size, fill) ==
    scatter_add_(full(out_size, fill), dim, idx, src)

\* scatter_add, lines 485-490
scatter_add(src, idx, dim, out_size, fill) ==
    LET dim_size == MaxOf({ idx.data[p] : p \in Positions(idx.shape) }) + 1
        size == IF out_size = None THEN [src.shape EXCEPT ![dim + 1] = dim_size]
                ELSE out_size
    IN  ScatterAdd_forward(src, idx, dim, size, fill)

(***************************************************************************)
(* gather_points = GatherFunction.apply, lines 228-272.  The two native    *)
(* kernels sampling.gather_forward and sampling.gather_backward are not    *)
(* part of the Python sources; they are modelled from section 4.1 of the   *)
(* design: forward selects the feature column at the given index, backward *)
(* accumulates the incoming gradient at the positions named by idx.        *)
(***************************************************************************)
sampling_gather_forward(B, C, N, npoint, features, idx, output) ==
    [shape |-> output.shape,
     data |-> [p \in Positions(output.shape) |->
                  features.data[<<p[1], p[2], idx.data[<<p[1], p[3]>>]>>]]]

sampling_gather_backward(B, C, N, npoint, grad_out, idx, grad_features) ==
    [shape |-> grad_features.shape,
     data |-> [q \in Positions(grad_features.shape) |->
                  LET from == { <<q[1], q[2], m>> : m \in
                                  { k \in 0..(npoint - 1) : idx.data[<<q[1], k>>] = q[3] } }
                  IN  FAdd(grad_features.data[q], FSumOver(grad_out.data, from))]]

\* GatherFunction.forward, lines 230-259: the output and what ctx keeps
GatherFunction_forward(features, idx) ==
    LET B == idx.shape[1]
        npoint == idx.shape[2]
        C == features.shape[2]
        N == features.shape[3]
        \* torch.empty: the kernel writes every element
        output == full(<<B, C, npoint>>, NaN)
    IN  [output |-> sampling_gather_forward(B, C, N, npoint, features, idx, output),
         ctx |-> [idx |-> idx, C |-> C, N |-> N]]

\* GatherFunction.backward, lines 262-272
GatherFunction_backward(ctx, grad_out) ==
    LET B == ctx.idx.shape[1]
        npoint == ctx.idx.shape[2]
        grad_features == zeros(<<B, ctx.C, ctx.N>>)
    IN  sampling_gather_backward(B, ctx.C, ctx.N, npoint, grad_out, ctx.idx,
                                 grad_features)

(***************************************************************************)
(* One gather_points call, its backward pass, and one scatter_add call on  *)
(* the same index set.                                                     *)
(***************************************************************************)
MaxN == 3       \* points per batch element: N in 2..MaxN
MaxIdx == 4     \* index entries in all: B * M <= MaxIdx

GsBatch == {1, 2}
GsChannels == {1, 2}

GsShapes ==
    { sh \in GsBatch \X GsChannels \X (2..MaxN) \X (1..MaxIdx) : sh[1] * sh[4] <= MaxIdx }

\* a feature map with pairwise distinct entries
GsFeatures(B, C, N) ==
    [shape |-> <<B, C, N>>,
     data |-> [p \in Positions(<<B, C, N>>) |-> Num(100 * p[1] + 10 * p[2] + p[3] + 1)]]

\* the index sets of shape (B, M) with entries in 0..N-1, repeats allowed
GsIndexSets(B, M, N) ==
    { [shape |-> <<B, M>>, data |-> d] : d \in [Positions(<<B, M>>) -> 0..(N - 1)] }

\* output gradients of shape (B, C, M): all ones, or distinct per position
GsGradOuts(B, C, M) ==
    { full(<<B, C, M>>, One),
      [shape |-> <<B, C, M>>,
       data |-> [p \in Positions(<<B, C, M>>) |-> Num(4 * p[1] + 2 * p[2] + p[3] + 1)]] }

\* idx (B, M) repeated over the C channels: (B, C, M)
ExpandOverChannels(idx, C) ==
    LET size == <<idx.shape[1], C, idx.shape[2]>>
    IN  [shape |-> size,
         data |-> [p \in Positions(size) |-> idx.data[<<p[1], p[3]>>]]]

GsFrame == UNCHANGED <<cotVars, opVars, knn, mvc2, mvc3, callVars>>

GsInit ==
    /\ CotParked /\ OpParked
    /\ knn = None /\ mvc2 = None /\ mvc3 = None /\ CallsParked
    /\ \E sh \in GsShapes : \E idx \in GsIndexSets(sh[1], sh[4], sh[3]) :
          gs = [features |-> GsFeatures(sh[1], sh[2], sh[3]), idx |-> idx,
                ctx |-> None, output |-> None,
                grad_out |-> None, grad |-> None, scat |-> None]

\* output = gather_points(features, idx)
GsForward ==
    /\ gs.ctx = None
    /\ LET r == GatherFunction_forward(gs.features, gs.idx)
       IN  gs' = [gs EXCEPT !.ctx = r.ctx, !.output = r.output]
    /\ GsFrame

\* output.backward(grad_out)
GsBackward ==
    /\ gs.ctx # None
    /\ gs.grad = None
    /\ \E g \in GsGradOuts(gs.idx.shape[1], gs.ctx.C, gs.idx.shape[2]) :
          gs' = [gs EXCEPT !.grad_out = g,
                           !.grad = GatherFunction_backward(gs.ctx, g)]
    /\ GsFrame

\* scatter_add(ones, index, dim, out_size) with fill 0, the index set as it is
\* or repeated over the channels
GsScatter ==
    /\ gs.scat = None
    /\ \E index \in { gs.idx, ExpandOverChannels(gs.idx, gs.features.shape[2]) } :
       \E dim \in {1, 2} :
       \E out_size \in { None, gs.features.shape } :
          gs' = [gs EXCEPT !.scat =
                    [src |-> ones_like(index), idx |-> index, dim |-> dim,
                     out_size |-> out_size,
                     res |-> scatter_add(ones_like(index), index, dim, out_size, Zero)]]
    /\ GsFrame

GsNext == GsForward \/ GsBackward \/ GsScatter

SpecGather == GsInit /\ [][GsNext]_vars

\* the number of times n occurs in row b of idx
Occurrences(idx, b, n) ==
    Cardinality({ m \in 0..(idx.shape[2] - 1) : idx.data[<<b, m>>] = n })

GsOnesBackward == gs.grad # None /\ gs.grad_out = ones_like(gs.grad_out)

(***************************************************************************)
(* C5, as stated: for the output gradient of all ones the backward of      *)
(* gather holds, at each position n, the number of times n occurs in idx,  *)
(* and equals scatter_add(ones_like(idx), idx, out_size = F's shape) with  *)
(* fill 0, the index set idx[B,M] passed as it is.                         *)
(***************************************************************************)
C5_BackwardIsScatterOfIdx ==
    (/\ GsOnesBackward
     /\ gs.scat # None
     /\ gs.scat.idx = gs.idx
     /\ gs.scat.out_size = gs.features.shape)
    => /\ gs.scat.res.raised = "no"
       /\ gs.scat.res.out = gs.grad

(***************************************************************************)
(* C5, amended: for the output gradient of all ones the backward of gather *)
(* holds, at each position (b, c, n), the number of times n occurs in row  *)
(* b of idx (0 where idx does not name n), and equals scatter_add along    *)
(* dimension 2 of a (B, C, M) tensor of ones with idx repeated over the C  *)
(* channels, out_size = F's shape and fill 0.                              *)
(***************************************************************************)
C5_BackwardCountsOccurrences ==
    GsOnesBackward
    => /\ \A p \in Positions(gs.features.shape) :
             gs.grad.data[p] = Num(Occurrences(gs.idx, p[1], p[3]))
       /\ (/\ gs.scat # None
           /\ gs.scat.idx = ExpandOverChannels(gs.idx, gs.features.shape[2])
           /\ gs.scat.dim = 2
           /\ gs.scat.out_size = gs.features.shape)
          => /\ gs.scat.res.raised = "no"
             /\ gs.scat.res.out = gs.grad

\* an index set that names one position twice and another not at all
C5_Witness_RepeatedIndex ==
    /\ GsOnesBackward
    /\ gs.scat # None
    /\ gs.scat.idx = ExpandOverChannels(gs.idx, gs.features.shape[2])
    /\ gs.scat.dim = 2
    /\ gs.scat.out_size = gs.features.shape
    /\ \E p \in Positions(gs.features.shape) : gs.grad.data[p] = Num(2)
    /\ \E p \in Positions(gs.features.shape) : gs.grad.data[p] = Zero

(***************************************************************************)
(* operations.py: group_knn(k, query, points, unique, NCHW=False), lines   *)
(* 174-225.  query is B x M x C and points B x N x C, as sequences of      *)
(* sequences of coordinate tuples; the coordinates are small integers, on  *)
(* which the float arithmetic of the source is exact.                      *)
(***************************************************************************)
SumTo(f, n) == LET RECURSIVE S(_)
                   S(i) == IF i = 0 THEN 0 ELSE f[i] + S(i - 1)
               IN  S(n)

\* torch.sum(A * B, dim=-1) for one pair of rows
Dot(a, b) == SumTo([c \in 1..Len(a) |-> a[c] * b[c]], Len(a))

\* the distance matrix with the cross term added instead of subtracted
batch_distance_matrix_general_Plus(A, Bm) ==
    [b \in 1..Len(A) |-> [i \in 1..Len(A[b]) |-> [j \in 1..Len(Bm[b]) |->
        Dot(A[b][i], A[b][i]) + 2 * Dot(A[b][i], Bm[b][j]) + Dot(Bm[b][j], Bm[b][j])]]]

\* __batch_distance_matrix_general(A, B), lines 160-171: D = r_A - 2 m + r_B^T
batch_distance_matrix_general(A, Bm) ==
    [b \in 1..Len(A) |-> [i \in 1..Len(A[b]) |-> [j \in 1..Len(Bm[b]) |->
        Dot(A[b][i], A[b][i]) - 2 * Dot(A[b][i], Bm[b][j]) + Dot(Bm[b][j], Bm[b][j])]]]

\* np.unique(rows, return_index=True, axis=0)[1]: the (0-based) index of the
\* first occurrence of each distinct row
np_unique_index(rows) ==
    { i - 1 : i \in { i \in 1..Len(rows) : \A j \in 1..(i - 1) : rows[j] # rows[i] } }

\* lines 203-212: 1 at every point that repeats an earlier one, else 0
indices_duplicated(points) ==
    [b \in 1..Len(points) |-> [n \in 1..Len(points[b]) |->
        IF (n - 1) \in np_unique_index(points[b]) THEN 0 ELSE 1]]

\* torch.max(D): the largest entry of the whole B x M x N matrix
MaxD(D) ==
    MaxOf({ D[b][m][n] : b \in 1..Len(D), m \in 1..Len(D[1]), n \in 1..Len(D[1][1]) })

\* line 213: D += torch.max(D) * indices_duplicated
penalize(D, dup) ==
    [b \in 1..Len(D) |-> [m \in 1..Len(D[b]) |-> [n \in 1..Len(D[b][m]) |->
        D[b][m][n] + MaxD(D) * dup[b][n]]]]

\* torch.topk(v, k, sorted=True) on one row: every selection of k distinct
\* positions (1-based here) holding k largest values in non-increasing order.
\* Which of several equal values is taken is not specified by torch.
topk(v, k) ==
    { s \in [1..k -> 1..Len(v)] :
        /\ \A i, j \in 1..k : i # j => s[i] # s[j]
        /\ \A i \in 1..(k - 1) : v[s[i]] >= v[s[i + 1]]
        /\ \A n \in 1..Len(v) : (\A i \in 1..k : s[i] # n) => v[n] <= v[s[k]] }

\* the results group_knn can return: lines 196-225
group_knn(k, query, points, unique) ==
    LET num_points == Len(points[1])
        D0 == batch_distance_matrix_general(query, points)
        dup == indices_duplicated(points)
        D == IF unique THEN penalize(D0, dup) ELSE D0
        negD == [b \in 1..Len(D) |-> [m \in 1..Len(D[b]) |->
                    [n \in 1..Len(D[b][m]) |-> 0 - D[b][m][n]]]]
    IN  IF ~(num_points >= k)
        THEN { [raised |-> "AssertionError", D |-> None, point_indices |-> None,
                distances |-> None, knn |-> None] }
        ELSE { [raised |-> "no", D |-> D,
                \* 0-based, as returned
                point_indices |-> [b \in 1..Len(D) |-> [m \in 1..Len(D[b]) |->
                                     [j \in 1..k |-> sel[b][m][j] - 1]]],
                \* -distances of line 225
                distances |-> [b \in 1..Len(D) |-> [m \in 1..Len(D[b]) |->
                                 [j \in 1..k |-> 0 - negD[b][m][sel[b][m][j]]]]],
                knn |-> [b \in 1..Len(D) |-> [m \in 1..Len(D[b]) |->
                           [j \in 1..k |-> points[b][sel[b][m][j]]]]]] :
               sel \in { f \in [1..Len(D) -> [1..Len(D[1]) -> [1..k -> 1..num_points]]] :
                           \A b \in 1..Len(D) : \A m \in 1..Len(D[1]) :
                               f[b][m] \in topk(negD[b][m], k) } }

KnnMaxN == 3        \* points per batch element
KnnMaxPoints == 4   \* points in all: B * N <= KnnMaxPoints

KnnCoords == { <<0, 0, 0>>, <<1, 0, 0>>, <<-1, 0, 0>>, <<0, 2, 0>> }
KnnQueries == { <<0, 0, 0>>, <<1, 0, 0>> }

\* (query, points) pairs with B in {1, 2}, M = 1, N in 1..KnnMaxN
KnnInputs ==
    UNION { { [query |-> q, points |-> pts] :
                q \in [1..B -> [1..1 -> KnnQueries]],
                pts \in [1..B -> [1..N -> KnnCoords]] } :
            <<B, N>> \in { x \in {1, 2} \X (1..KnnMaxN) : x[1] * x[2] <= KnnMaxPoints } }

KnnFrame == UNCHANGED <<cotVars, opVars, gs, mvc2, mvc3, callVars>>

KnnInit ==
    /\ CotParked /\ OpParked
    /\ gs = None /\ mvc2 = None /\ mvc3 = None /\ CallsParked
    /\ \E inp \in KnnInputs :
          knn = [query |-> inp.query, points |-> inp.points, k |-> 0,
                 unique |-> FALSE, called |-> FALSE, result |-> None]

\* group_knn(k, query, points, unique, NCHW=False), k up to N + 1
KnnCall ==
    /\ ~knn.called
    /\ \E k \in 1..(Len(knn.points[1]) + 1) : \E unique \in BOOLEAN :
       \E r \in group_knn(k, knn.query, knn.points, unique) :
          knn' = [knn EXCEPT !.k = k, !.unique = unique, !.called = TRUE,
                             !.result = r]
    /\ KnnFrame

KnnNext == KnnCall

SpecKnn == KnnInit /\ [][KnnNext]_vars

KnnReturned == knn.called /\ knn.result.raised = "no"

\* the rows (batch element, query) of a result
KnnRows == { <<b, m>> : b \in 1..Len(knn.query), m \in 1..Len(knn.query[1]) }

\* the point a returned (0-based) index refers to
KnnPoint(b, i) == knn.points[b][i + 1]

(***************************************************************************)
(* C6: with unique enabled and N >= k, no two of the k indices returned    *)
(* for a query refer to points of the same batch element with identical    *)
(* coordinates, whatever the number of distinct coordinates.               *)
(***************************************************************************)
C6_UniqueNeighbors ==
    (KnnReturned /\ knn.unique)
    => \A r \in KnnRows : \A i, j \in 1..knn.k :
          i # j => KnnPoint(r[1], knn.result.point_indices[r[1]][r[2]][i])
                     # KnnPoint(r[1], knn.result.point_indices[r[1]][r[2]][j])

\* brute force: the squared distances from query row r to all N points, and
\* the j-th smallest of them
KnnBrute(r) ==
    [n \in 1..Len(knn.points[r[1]]) |-> SqDist(knn.query[r[1]][r[2]], knn.points[r[1]][n])]

KthSmallest(d, j) ==
    CHOOSE v \in { d[n] : n \in 1..Len(d) } :
        /\ Cardinality({ n \in 1..Len(d) : d[n] < v }) < j
        /\ Cardinality({ n \in 1..Len(d) : d[n] <= v }) >= j

(***************************************************************************)
(* C7: with unique disabled and N >= k, for every batch element and query  *)
(* row the returned distances are in non-decreasing order, each returned   *)
(* index realizes the distance at its position, and the j-th returned      *)
(* distance is the j-th smallest of the N brute-force squared distances.   *)
(***************************************************************************)
C7_MatchesBruteForce ==
    (KnnReturned /\ ~knn.unique)
    => \A r \in KnnRows :
          LET dist == knn.result.distances[r[1]][r[2]]
              idx == knn.result.point_indices[r[1]][r[2]]
          IN  /\ \A j \in 1..(knn.k - 1) : dist[j] <= dist[j + 1]
              /\ \A j \in 1..knn.k :
                    /\ dist[j] = SqDist(knn.query[r[1]][r[2]], KnnPoint(r[1], idx[j]))
                    /\ dist[j] = KthSmallest(KnnBrute(r), j)

\* k = 2 of 3 points, two of them at distinct coordinates and equally far,
\* one of the two returned and the other not
C7_Witness_TieAmongThree ==
    /\ KnnReturned /\ ~knn.unique
    /\ knn.k = 2
    /\ Len(knn.points[1]) = 3
    /\ \E r \in KnnRows :
          /\ \E n1, n2 \in 1..3 :
                /\ knn.points[r[1]][n1] # knn.points[r[1]][n2]
                /\ KnnBrute(r)[n1] = KnnBrute(r)[n2]
          /\ knn.result.distances[r[1]][r[2]][1] < knn.result.distances[r[1]][r[2]][2]

(***************************************************************************)
(* geo_operations.py: mean_value_coordinates(points, polygon), lines       *)
(* 452-517.  w is the B x M x N tensor of unnormalized weights that lines  *)
(* 462-508 hand to the final normalization; it is taken as given, w[b][m][n]*)
(* being the weight of polygon vertex m for query point n.                 *)
(***************************************************************************)
\* torch.sum(w, dim=1, keepdim=True): B x 1 x N
SumDim1(w) ==
    [b \in 1..Len(w) |-> << [n \in 1..Len(w[b][1]) |->
        FSum([m \in 1..Len(w[b]) |-> w[b][m][n]])] >>]

\* torch.nonzero(sumW == 0).numel() > 0
AnyZero(sumW) ==
    \E b \in 1..Len(sumW) : \E n \in 1..Len(sumW[b][1]) : FEq(sumW[b][1][n], Zero)

\* lines 511-517: the normalization
normalizeWeights(w) ==
    LET sumW0 == SumDim1(w)
        \* line 515: torch.where(sumW == 0, torch.ones_like(w), w), B x M x N
        sumW1 == [b \in 1..Len(w) |-> [m \in 1..Len(w[b]) |-> [n \in 1..Len(w[b][m]) |->
                    IF FEq(sumW0[b][1][n], Zero) THEN One ELSE w[b][m][n]]]]
    IN  [b \in 1..Len(w) |-> [m \in 1..Len(w[b]) |-> [n \in 1..Len(w[b][m]) |->
            FDiv(w[b][m][n],
                 IF AnyZero(sumW0) THEN sumW1[b][m][n] ELSE sumW0[b][1][n])]]]

\* the whole call: the global names the body loads are cross_product_2D
\* (line 479) and dot_product (line 481)
mean_value_coordinates(w) ==
    LET unbound == FirstUnbound(<<"cross_product_2D", "dot_product">>)
    IN  IF unbound # None
        THEN [raised |-> "NameError", name |-> unbound[1], phi |-> None]
        ELSE [raised |-> "no", name |-> "", phi |-> normalizeWeights(w)]

Mvc2MaxM == 3          \* polygon vertices: M in 2..Mvc2MaxM
Mvc2MaxEntries == 6    \* B * M * N <= Mvc2MaxEntries

Mvc2Weights == { Num(-1), Zero, One, Num(2) }

Mvc2Shapes ==
    { sh \in {1, 2} \X (2..Mvc2MaxM) \X {1, 2} : sh[1] * sh[2] * sh[3] <= Mvc2MaxEntries }

Mvc2Inputs ==
    UNION { [1..sh[1] -> [1..sh[2] -> [1..sh[3] -> Mvc2Weights]]] : sh \in Mvc2Shapes }

Mvc2Frame == UNCHANGED <<cotVars, opVars, gs, knn, mvc3, callVars>>

Mvc2Init ==
    /\ CotParked /\ OpParked
    /\ gs = None /\ knn = None /\ mvc3 = None /\ CallsParked
    /\ \E w \in Mvc2Inputs : mvc2 = [w |-> w, result |-> None, phi |-> None]

\* phi = mean_value_coordinates(points, polygon)
Mvc2Call ==
    /\ mvc2.result = None
    /\ mvc2' = [mvc2 EXCEPT !.result = mean_value_coordinates(mvc2.w)]
    /\ Mvc2Frame

\* lines 511-517 applied to w
Mvc2Normalize ==
    /\ mvc2.phi = None
    /\ mvc2' = [mvc2 EXCEPT !.phi = normalizeWeights(mvc2.w)]
    /\ Mvc2Frame

Mvc2Next == Mvc2Call \/ Mvc2Normalize

SpecMvc2 == Mvc2Init /\ [][Mvc2Next]_vars

\* the sum over the M polygon vertices for batch element b and query point n
ColumnSum(t, b, n) == FSum([m \in 1..Len(t[b]) |-> t[b][m][n]])

(***************************************************************************)
(* C8: for every batch element and every query point whose unnormalized    *)
(* weights have a nonzero sum, the weights returned by the normalization   *)
(* of lines 511-517 sum to 1 over the M polygon vertices, whether or not   *)
(* another query point or batch element of the call has a zero sum.        *)
(***************************************************************************)
C8_ColumnsSumToOne ==
    mvc2.phi # None
    => \A b \in 1..Len(mvc2.w) : \A n \in 1..Len(mvc2.w[b][1]) :
          ~FEq(ColumnSum(mvc2.w, b, n), Zero)
          => FEq(ColumnSum(mvc2.phi, b, n), One)

(***************************************************************************)
(* geo_operations.py: mean_value_coordinates_3D(query, vertices, faces),   *)
(* lines 346-449, for B = 1 and P = 1: query is one point, vertices a      *)
(* sequence of N points, faces a sequence of F index triples.  The         *)
(* trigonometry of lines 360-408 is taken as given, per face f:            *)
(*   general[f]  the three weights wi of line 408,                         *)
(*   under[f]    torch.any(torch.abs(si) <= 1e-5) of line 420,            *)
(*   inside[f]   (PI - h) < 1e-4 of line 425,                              *)
(*   tri[f]      sin(theta_i) * di * di of line 429.                       *)
(* A face with a vertex at the query has a zero row in ui, so det(ui) = 0, *)
(* si = 0 and under[f] holds; its two remaining angles are pi/3, so h is   *)
(* at most 5 pi / 6 and inside[f] does not hold.                           *)
(***************************************************************************)
\* line 435: dj.squeeze(-1) < 1e-8, on integer coordinates
close_to_point(query, vertices) ==
    [n \in 1..Len(vertices) |-> SqDist(vertices[n], query) = 0]

\* variant: the sign-underflow rule applied last, over the in-face weights too
faceWeights_UnderflowLast(geo) ==
    LET F == Len(geo.general)
        zero3 == <<Zero, Zero, Zero>>
        anyInside == \E f \in 1..F : geo.inside[f]
        w1 == [f \in 1..F |-> IF anyInside THEN zero3 ELSE geo.general[f]]
        w2 == [f \in 1..F |-> IF geo.inside[f] THEN geo.tri[f] ELSE w1[f]]
    IN  [f \in 1..F |-> IF geo.under[f] THEN zero3 ELSE w2[f]]

\* lines 420-429: the weights of the F faces after the three torch.where
faceWeights(geo) ==
    LET F == Len(geo.general)
        zero3 == <<Zero, Zero, Zero>>
        \* line 420
        w1 == [f \in 1..F |-> IF geo.under[f] THEN zero3 ELSE geo.general[f]]
        \* line 427
        anyInside == \E f \in 1..F : geo.inside[f]
        w2 == [f \in 1..F |-> IF anyInside THEN zero3 ELSE w1[f]]
    \* line 429
    IN  [f \in 1..F |-> IF geo.inside[f] THEN geo.tri[f] ELSE w2[f]]

\* x.reshape(B, P, -1) of a (1, 1, F, 3) tensor given as a sequence of triples
reshapeBP(x) ==
    [shape |-> <<1, 1, 3 * Len(x)>>,
     data |-> [p \in Positions(<<1, 1, 3 * Len(x)>>) |->
                  x[(p[3] \div 3) + 1][(p[3] % 3) + 1]]]

\* the row returned as it is, without the division
normalizeRow_NoDivide(wj) == [n \in 1..Len(wj) |-> wj[n]]

\* lines 441-444: wj / sumWj, a zero sum replaced by 1
normalizeRow(wj) ==
    LET sumWj0 == FSum(wj)
        sumWj == IF FEq(sumWj0, Zero) THEN One ELSE sumWj0
    IN  [n \in 1..Len(wj) |-> FDiv(wj[n], sumWj)]

\* lines 432-444 on the face weights wi: what is raised, or the row returned
vertexWeights(wi, query, vertices, faces) ==
    LET N == Len(vertices)
        \* line 432; out_size is left to scatter_add
        acc == scatter_add(reshapeBP(wi), reshapeBP(faces), 2, None, Zero)
        K == acc.out.shape[3]
        close == close_to_point(query, vertices)
        anyClose == \E n \in 1..N : close[n]
        \* line 437: (B, P, K)
        wj1 == [n \in 1..K |-> IF anyClose THEN Zero ELSE acc.out.data[<<0, 0, n - 1>>]]
        \* line 438: (B, P, N) against (B, P, K), broadcast when K = 1
        wj2 == [n \in 1..N |-> IF close[n] THEN One
                               ELSE IF K = 1 THEN wj1[1] ELSE wj1[n]]
    IN  IF acc.raised # "no"
        THEN [raised |-> acc.raised, wi |-> wi, raw |-> None, wj |-> None]
        ELSE IF K # N /\ K # 1 /\ N # 1
        THEN [raised |-> "RuntimeError", wi |-> wi, raw |-> None, wj |-> None]
        ELSE [raised |-> "no", wi |-> wi, raw |-> Seq1(wj2),
              wj |-> Seq1(normalizeRow(wj2))]

mean_value_coordinates_3D(query, vertices, faces, geo) ==
    vertexWeights(Seq2(faceWeights(geo)), query, vertices, faces)

Mvc3MaxF == 2      \* faces: F in 1..Mvc3MaxF

Mvc3Queries == { <<0, 0, 0>>, <<0, 0, 1>> }

\* vertex positions: in general position, some at a query, some repeated
Mvc3Vertices ==
    { << <<1, 0, 0>>, <<0, 1, 0>>, <<1, 1, 1>> >>,
      << <<0, 0, 0>>, <<0, 1, 0>>, <<1, 1, 1>> >>,
      << <<0, 0, 0>>, <<0, 0, 0>>, <<1, 1, 1>> >>,
      << <<1, 0, 0>>, <<1, 0, 0>>, <<0, 0, 1>> >>,
      << <<1, 0, 0>>, <<0, 1, 0>>, <<1, 1, 1>>, <<2, 0, 0>> >>,
      << <<1, 0, 0>>, <<0, 1, 0>>, <<1, 1, 1>>, <<0, 0, 0>> >> }

\* face lists over N vertices, repeated in turn up to F faces; some leave a
\* vertex of the mesh unreferenced
Mvc3FaceLists(N) ==
    IF N = 3
    THEN { << <<0, 1, 2>>, <<0, 2, 1>> >>,
           << <<0, 1, 1>>, <<0, 1, 2>> >>,
           << <<0, 1, 1>>, <<0, 0, 1>> >>,
           << <<0, 0, 0>> >> }
    ELSE { << <<0, 1, 2>>, <<1, 2, 3>>, <<0, 3, 2>> >>,
           << <<1, 2, 3>>, <<0, 3, 2>> >>,
           << <<0, 1, 2>>, <<0, 2, 1>> >> }

Mvc3Faces(N) ==
    { Seq1([f \in 1..F |-> base[((f - 1) % Len(base)) + 1]]) :
        base \in Mvc3FaceLists(N), F \in 1..Mvc3MaxF }

\* the weights of line 408, per face: all positive, or with negative entries
\* (the first face summing to zero)
Mvc3General ==
    { [f \in 1..Mvc3MaxF |-> <<Num(f), Num(f + 1), One>>],
      [f \in 1..Mvc3MaxF |-> IF f = 1 THEN <<One, Num(-1), Zero>>
                             ELSE <<Num(2), Num(-1), One>>] }

\* the face has a vertex at the query
TouchesQuery(query, vertices, face) ==
    \E i \in 1..3 : close_to_point(query, vertices)[face[i] + 1]

Mvc3Inputs ==
    UNION { { [query |-> y[1], vertices |-> y[2], faces |-> y[3],
               geo |-> [general |-> Seq1([f \in 1..Len(y[3]) |-> g[f]]),
                        under |-> u, inside |-> ins,
                        tri |-> Seq1([f \in 1..Len(y[3]) |-> <<One, Num(2), One>>])]] :
                g \in Mvc3General,
                u \in { x \in [1..Len(y[3]) -> BOOLEAN] :
                          \A f \in 1..Len(y[3]) :
                             TouchesQuery(y[1], y[2], y[3][f]) => x[f] },
                ins \in { x \in [1..Len(y[3]) -> BOOLEAN] :
                          \A f \in 1..Len(y[3]) :
                             TouchesQuery(y[1], y[2], y[3][f]) => ~x[f] } } :
            y \in UNION { {q} \X {V} \X Mvc3Faces(Len(V)) :
                          q \in Mvc3Queries, V \in Mvc3Vertices } }

Mvc3Frame == UNCHANGED <<cotVars, opVars, gs, knn, mvc2, callVars>>

Mvc3Init ==
    /\ CotParked /\ OpParked
    /\ gs = None /\ knn = None /\ mvc2 = None /\ CallsParked
    /\ \E inp \in Mvc3Inputs : mvc3 = [inp |-> inp, result |-> None]

\* wj = mean_value_coordinates_3D(query, vertices, faces)
Mvc3Call ==
    /\ mvc3.result = None
    /\ mvc3' = [mvc3 EXCEPT !.result =
                   mean_value_coordinates_3D(mvc3.inp.query, mvc3.inp.vertices,
                                             mvc3.inp.faces, mvc3.inp.geo)]
    /\ Mvc3Frame

Mvc3Next == Mvc3Call

SpecMvc3 == Mvc3Init /\ [][Mvc3Next]_vars

Mvc3Returned == mvc3.result # None /\ mvc3.result.raised = "no"

\* the (1-based) vertices at the position of the query
Mvc3Coincident ==
    { n \in 1..Len(mvc3.inp.vertices) :
         close_to_point(mvc3.inp.query, mvc3.inp.vertices)[n] }

C10_VertexReproduction ==
    Mvc3Returned
    => \A j \in Mvc3Coincident : \A n \in 1..Len(mvc3.result.wj) :
          mvc3.result.wj[n] = IF n = j THEN One ELSE Zero

(***************************************************************************)
(* C11: mean_value_coordinates_3D returns weights over all N vertices of   *)
(* the mesh (shape B x P x N) for every mesh with face indices in 0..N-1,  *)
(* whether or not every vertex is referenced by a face, and never fails on *)
(* a shape mismatch between the accumulated weights and the distance mask. *)
(***************************************************************************)
C11_WeightsOverAllVertices ==
    mvc3.result # None
    => /\ mvc3.result.raised = "no"
       /\ Len(mvc3.result.wj) = Len(mvc3.inp.vertices)

\* the parts of the model above, left alone by the calls below
baseVars == <<cotVars, opVars, gs, knn, mvc2, mvc3>>

BaseParked ==
    /\ CotParked /\ OpParked
    /\ gs = None /\ knn = None /\ mvc2 = None /\ mvc3 = None

(***************************************************************************)
(* Two group_knn calls on batches of two elements that agree on element 0  *)
(* (query and points) and may differ in element 1.  torch.topk is a        *)
(* deterministic procedure: on equal rows the two calls select the same    *)
(* positions.                                                              *)
(***************************************************************************)
\* batch elements (query row, two points)
PairShared ==
    { [query |-> <<q>>, points |-> pts] : q \in KnnQueries, pts \in [1..2 -> KnnCoords] }

PairOther ==
    { [query |-> << <<0, 0, 0>> >>, points |-> pts] :
        pts \in { << <<0, 0, 0>>, <<0, 0, 0>> >>,
                  << <<0, 0, 0>>, <<1, 0, 0>> >>,
                  << <<0, 0, 0>>, <<0, 2, 0>> >> } }

\* the batch of the two elements e0, e1
PairBatch(e0, e1) ==
    [query |-> <<e0.query, e1.query>>, points |-> <<e0.points, e1.points>>]

PairFrame == UNCHANGED <<baseVars, fps, ball, svc, qg, svd>>

PairInit ==
    /\ BaseParked
    /\ fps = None /\ ball = None /\ svc = None /\ qg = None /\ svd = None
    /\ \E e0 \in PairShared : \E e1 \in PairOther : \E e2 \in PairOther :
          knnPair = [first |-> PairBatch(e0, e1), second |-> PairBatch(e0, e2),
                     k |-> 0, unique |-> FALSE, called |-> FALSE,
                     r1 |-> None, r2 |-> None]

\* group_knn(k, query, points, unique, NCHW=False) on each of the two batches
PairCall ==
    /\ ~knnPair.called
    /\ \E k \in 1..2 : \E unique \in BOOLEAN :
       \E r1 \in group_knn(k, knnPair.first.query, knnPair.first.points, unique) :
       \E r2 \in group_knn(k, knnPair.second.query, knnPair.second.points, unique) :
          /\ \A b \in 1..2 :
                r1.D[b][1] = r2.D[b][1] => r1.point_indices[b][1] = r2.point_indices[b][1]
          /\ knnPair' = [knnPair EXCEPT !.k = k, !.unique = unique, !.called = TRUE,
                                        !.r1 = r1, !.r2 = r2]
    /\ PairFrame

PairNext == PairCall

SpecKnnPair == PairInit /\ [][PairNext]_vars

(***************************************************************************)
(* C12: the indices and distances group_knn returns for batch element b    *)
(* depend only on the query and points of element b: two calls that agree  *)
(* on element b and differ in another element return the same indices and  *)
(* distances for element b.                                                *)
(***************************************************************************)
C12_BatchIndependent ==
    knnPair.called
    => /\ knnPair.r1.point_indices[1] = knnPair.r2.point_indices[1]
       /\ knnPair.r1.distances[1] = knnPair.r2.distances[1]

(***************************************************************************)
(* geo_operations.py: FurthestPointSampling (lines 9-36) and               *)
(* furthest_point_sample (lines 42-62), NCHW=False.  xyz is B x N x 3.     *)
(* The native kernel sampling.furthest_sampling is not part of the Python  *)
(* sources; it is modelled from section 4.3 of the design: the seed is the *)
(* first selected index, and each further index is the argmax (lowest      *)
(* index on ties) of the running minimum squared distance to the points    *)
(* selected so far.                                                        *)
(***************************************************************************)
\* line 31: the running distances start at 1e10; the value here stands above
\* every squared distance of the model (TLC integers are 32-bit)
temp_init == 1000000000

Min2(a, b) == IF a <= b THEN a ELSE b

\* the lowest (1-based) position holding the largest value of row t
ArgMaxLowest(t) ==
    CHOOSE n \in 1..Len(t) :
        /\ \A j \in 1..Len(t) : t[j] <= t[n]
        /\ \A j \in 1..(n - 1) : t[j] < t[n]

\* the running minimum after the points sel[1..j] (1-based) were selected
RECURSIVE RunningMin(_, _, _, _)
RunningMin(pts, temp, sel, j) ==
    IF j = 0 THEN temp
    ELSE LET prev == RunningMin(pts, temp, sel, j - 1)
         IN  [n \in 1..Len(pts) |-> Min2(prev[n], SqDist(pts[n], pts[sel[j]]))]

\* one batch element: the (1-based) selection of length npoint
RECURSIVE SelectFrom(_, _, _, _)
SelectFrom(pts, temp, seed, npoint) ==
    IF npoint = 1 THEN <<seed + 1>>
    ELSE LET sel == SelectFrom(pts, temp, seed, npoint - 1)
         IN  Append(sel, ArgMaxLowest(RunningMin(pts, temp, sel, npoint - 1)))

\* sampling.furthest_sampling(npoint, seedIdx, xyz, temp, idx): idx, 0-based
sampling_furthest_sampling(npoint, seedIdx, xyz, temp) ==
    [b \in 1..Len(xyz) |->
        LET sel == SelectFrom(xyz[b], temp[b], seedIdx, npoint)
        IN  [j \in 1..npoint |-> sel[j] - 1]]

\* FurthestPointSampling.forward, lines 12-36
FurthestPointSampling_forward(xyz, npoint, seedIdx) ==
    LET temp == [b \in 1..Len(xyz) |-> [n \in 1..Len(xyz[b]) |-> temp_init]]
    IN  Seq2(sampling_furthest_sampling(npoint, seedIdx, xyz, temp))

\* furthest_point_sample(xyz, npoint, NCHW=False, seedIdx), lines 42-62: the
\* global names the body loads are __furthest_point_sample (58, bound at line
\* 39) and gather_points (59)
furthest_point_sample(xyz, npoint, seedIdx) ==
    LET idx == FurthestPointSampling_forward(xyz, npoint, seedIdx)
        unbound == FirstUnbound(<<"gather_points">>)
    IN  IF unbound # None
        THEN [raised |-> "NameError", name |-> unbound[1], idx |-> None,
              sampled_pc |-> None]
        ELSE [raised |-> "no", name |-> "", idx |-> idx,
              sampled_pc |-> [b \in 1..Len(xyz) |-> [j \in 1..npoint |->
                                 xyz[b][idx[b][j] + 1]]]]

FpsMaxN == 3        \* points per batch element: N in 2..FpsMaxN

FpsInputs ==
    UNION { [1..sh[1] -> [1..sh[2] -> KnnCoords]] :
            sh \in { x \in {1, 2} \X (2..FpsMaxN) : x[1] = 1 \/ x[2] = 2 } }

FpsFrame == UNCHANGED <<baseVars, knnPair, ball, svc, qg, svd>>

FpsInit ==
    /\ BaseParked
    /\ knnPair = None /\ ball = None /\ svc = None /\ qg = None /\ svd = None
    /\ \E xyz \in FpsInputs : fps = [xyz |-> xyz, sample |-> None, result |-> None]

\* idx = FurthestPointSampling.apply(xyz, npoint, seedIdx)
FpsSample ==
    /\ fps.sample = None
    /\ \E npoint \in 1..Len(fps.xyz[1]) : \E seedIdx \in 0..(Len(fps.xyz[1]) - 1) :
          fps' = [fps EXCEPT !.sample =
                    [npoint |-> npoint, seedIdx |-> seedIdx,
                     idx |-> FurthestPointSampling_forward(fps.xyz, npoint, seedIdx)]]
    /\ FpsFrame

\* idx, sampled_pc = furthest_point_sample(xyz, npoint, NCHW=False, seedIdx)
FpsCall ==
    /\ fps.result = None
    /\ \E npoint \in 1..Len(fps.xyz[1]) : \E seedIdx \in 0..(Len(fps.xyz[1]) - 1) :
          fps' = [fps EXCEPT !.result =
                    [npoint |-> npoint, seedIdx |-> seedIdx,
                     ret |-> furthest_point_sample(fps.xyz, npoint, seedIdx)]]
    /\ FpsFrame

FpsNext == FpsSample \/ FpsCall

SpecFps == FpsInit /\ [][FpsNext]_vars

\* the smallest squared distance from point n to the points in chosen
MinDist(pts, n, chosen) ==
    CHOOSE d \in { SqDist(pts[n], pts[c]) : c \in chosen } :
        \A c \in chosen : d <= SqDist(pts[n], pts[c])

\* row (0-based indices) is a greedy farthest-point selection from pts that
\* starts at seed: element j + 1 has the largest minimum squared distance to
\* the elements 1..j among the points not selected before, lowest index first
IsGreedySelection(pts, row, seed) ==
    /\ row[1] = seed
    /\ \A j \in 1..(Len(row) - 1) :
          LET chosen == { row[i] + 1 : i \in 1..j }
              md(n) == MinDist(pts, n, chosen)
              rest == (1..Len(pts)) \ chosen
          IN  /\ (row[j + 1] + 1) \in rest
              /\ \A n \in rest : md(n) <= md(row[j + 1] + 1)
              /\ \A n \in rest : n < row[j + 1] + 1 => md(n) < md(row[j + 1] + 1)

(***************************************************************************)
(* C13: furthest_point_sample returns, per batch element, npoint indices   *)
(* in selection order, the first being seedIdx and each later one the      *)
(* point with the maximum running minimum squared distance to the points   *)
(* selected before it among the points not yet selected (lowest index on   *)
(* ties).                                                                  *)
(***************************************************************************)
C13_GreedyFromSeed ==
    fps.result # None
    => /\ fps.result.ret.raised = "no"
       /\ \A b \in 1..Len(fps.xyz) :
             /\ Len(fps.result.ret.idx[b]) = fps.result.npoint
             /\ IsGreedySelection(fps.xyz[b], fps.result.ret.idx[b], fps.result.seedIdx)

(***************************************************************************)
(* operations.py: BallQuery (lines 278-304), B = 1 and one center per      *)
(* call.  forward is the single call sampling.ball_query(new_xyz, xyz,     *)
(* radius, nsample); the native kernel is not part of the Python sources   *)
(* and is modelled from section 4.4 of the design: per center, up to       *)
(* nsample indices of points within radius, the remaining slots repeating  *)
(* an in-radius index.  Which in-radius points are kept and which one is   *)
(* repeated is implementation-defined, so the kernel is a set of possible  *)
(* rows.  The design does not say what a center with no point in range     *)
(* gets: the row still has nsample slots, each holding some index of the   *)
(* cloud.  The radius is an integer r, compared squared.                   *)
(***************************************************************************)
\* the (1-based) positions of the points within radius of center c
BallInRange(pts, c, radius) ==
    { n \in 1..Len(pts) : SqDist(pts[n], c) <= radius * radius }

RowRange(row) == { row[j] : j \in 1..Len(row) }

\* variant: the free slots hold index 0, whether or not point 0 is in range
ballRows_PadZero(inRange, nsample, N) ==
    { row \in [1..nsample -> 0..(N - 1)] :
        /\ \A j \in 1..nsample :
              IF j <= Cardinality(inRange) THEN (row[j] + 1) \in inRange
              ELSE row[j] = 0
        /\ \A i, j \in 1..nsample :
              (i < j /\ j <= Cardinality(inRange)) => row[i] < row[j] }

\* the rows (0-based indices) the kernel may return for one center
ballRows(inRange, nsample, N) ==
    IF inRange = {} THEN [1..nsample -> 0..(N - 1)]
    ELSE { row \in [1..nsample -> { n - 1 : n \in inRange }] :
             Cardinality(RowRange(row)) = Min2(nsample, Cardinality(inRange)) }

\* sampling.ball_query(new_xyz, xyz, radius, nsample): possible B x 1 x nsample
sampling_ball_query(new_xyz, xyz, radius, nsample) ==
    { << <<row>> >> :
        row \in ballRows(BallInRange(xyz[1], new_xyz[1][1], radius), nsample,
                         Len(xyz[1])) }

\* BallQuery.forward(ctx, radius, nsample, xyz, new_xyz), line 297
BallQuery_forward(radius, nsample, xyz, new_xyz) ==
    sampling_ball_query(new_xyz, xyz, radius, nsample)

BallMaxN == 3        \* points in the cloud: N in 1..BallMaxN
BallMaxSample == 2   \* nsample in 1..BallMaxSample

BallCoords == { <<0, 0, 0>>, <<1, 0, 0>>, <<0, 2, 0>> }
BallRadii == {0, 1, 2}

BallInputs ==
    { [xyz |-> <<pts>>, new_xyz |-> << <<c>> >>] :
        pts \in UNION { [1..n -> BallCoords] : n \in 1..BallMaxN },
        c \in KnnQueries }

BallFrame == UNCHANGED <<baseVars, knnPair, fps, svc, qg, svd>>

BallInit ==
    /\ BaseParked
    /\ knnPair = None /\ fps = None /\ svc = None /\ qg = None /\ svd = None
    /\ \E inp \in BallInputs :
          ball = [xyz |-> inp.xyz, new_xyz |-> inp.new_xyz, radius |-> 0,
                  nsample |-> 0, idx |-> None]

\* idx = ball_query(radius, nsample, xyz, new_xyz)
BallCall ==
    /\ ball.idx = None
    /\ \E radius \in BallRadii : \E nsample \in 1..BallMaxSample :
       \E idx \in BallQuery_forward(radius, nsample, ball.xyz, ball.new_xyz) :
          ball' = [ball EXCEPT !.radius = radius, !.nsample = nsample, !.idx = idx]
    /\ BallFrame

BallNext == BallCall

SpecBall == BallInit /\ [][BallNext]_vars

\* slot j of the row returned for the center holds a point within radius
BallSlotInRadius(j) ==
    SqDist(ball.xyz[1][ball.idx[1][1][j] + 1], ball.new_xyz[1][1])
        <= ball.radius * ball.radius

BallSomeInRadius ==
    \E n \in 1..Len(ball.xyz[1]) :
        SqDist(ball.xyz[1][n], ball.new_xyz[1][1]) <= ball.radius * ball.radius

GPU_RES_bound(cuda) == cuda

\* variant: the tensors are never taken to be on the accelerator
is_cuda_Never(x_dev, database_dev) == FALSE

\* lines 66-70: is_cuda = x.is_cuda or database.is_cuda
is_cuda(x_dev, database_dev) == x_dev = "cuda" \/ database_dev = "cuda"

\* lines 67-71: the index created for the devices of the tensors
new_index(x_dev, database_dev) ==
    [kind |-> IF is_cuda(x_dev, database_dev) THEN "GpuIndexFlatL2"
              ELSE "IndexFlatL2",
     held |-> <<>>]

\* line 72: index.add_c(database.size(0), ...)
index_add(index, database) == [index EXCEPT !.held = index.held \o database]

\* line 90: index.reset()
index_reset(index) == [index EXCEPT !.held = <<>>]

\* lines 86-87: index.search_c(n, xptr, k, Dptr, Iptr) for one query x: the
\* possible (D, I) rows; equal distances may come in any order
index_search(index, x, k) ==
    LET N == Len(index.held)
        kk == Min2(k, N)
        neg == [n \in 1..N |-> 0 - SqDist(x, index.held[n])]
    IN  { [I |-> [j \in 1..k |-> IF j <= kk THEN sel[j] - 1 ELSE 0 - 1],
           D |-> [j \in 1..k |-> IF j <= kk THEN SqDist(x, index.held[sel[j]])
                                 ELSE "inf"]] :
          sel \in topk(neg, kk) }

\* line 152: torch.gather(points_expanded, 2, index_batch_expanded), the
\* possible outcomes.  An index outside 0..N-1 is an error on the host; on the
\* accelerator it is a device-side assertion, reported asynchronously, so the
\* call may also return a tensor whose contents are undefined.
gather_neighbors(dev, points, index_batch) ==
    IF \A b \in 1..Len(points) : \A j \in 1..Len(index_batch[b]) :
          index_batch[b][j] \in 0..(Len(points[b]) - 1)
    THEN { [raised |-> "no",
            neighbor_points |->
                [b \in 1..Len(points) |-> [j \in 1..Len(index_batch[b]) |->
                    points[b][index_batch[b][j] + 1]]]] }
    ELSE { [raised |-> "RuntimeError", neighbor_points |-> None] }
         \cup (IF dev = "cuda"
               THEN { [raised |-> "no", neighbor_points |-> "undefined"] }
               ELSE {})

SvcMaxB == 2        \* batch size: B in 1..SvcMaxB
SvcMaxN == 2        \* points per batch element: N in 1..SvcMaxN

SvcCoords == { <<0, 0, 0>>, <<1, 0, 0>> }

SvcInputs ==
    { [points |-> pts, query |-> [b \in 1..Len(pts) |-> <<0, 0, 0>>]] :
        pts \in UNION { [1..B -> [1..N -> SvcCoords]] :
                        B \in 1..SvcMaxB, N \in 1..SvcMaxN } }

\* the environments: tensors are on the accelerator only if there is one
SvcEnvs == { e \in [cuda : BOOLEAN, dev : {"cpu", "cuda"}] :
               e.dev = "cuda" => e.cuda }

SvcFrame == UNCHANGED <<baseVars, knnPair, fps, ball, qg, svd>>

SvcInit ==
    /\ BaseParked
    /\ knnPair = None /\ fps = None /\ ball = None /\ qg = None /\ svd = None
    /\ \E inp \in SvcInputs : \E e \in SvcEnvs :
          svc = [cuda |-> e.cuda, dev |-> e.dev, points |-> inp.points,
                 query |-> inp.query, k |-> 0, pc |-> "idle", i |-> 0,
                 index |-> None, found |-> None, index_batch |-> <<>>,
                 distance_batch |-> <<>>, ret |-> None, out |-> None,
                 raised |-> "no", log |-> <<>>]

SvcB == Len(svc.points)
SvcIsCuda == is_cuda(svc.dev, svc.dev)
SvcLog(op) == Append(svc.log, [op |-> op, i |-> svc.i,
                               held |-> IF op = "search" THEN svc.index.held
                                        ELSE None])

\* faiss_knn(k, query, points, NCHW=False), lines 139-144, into KNN.forward,
\* lines 106-108; k up to N + 1
SvcCall ==
    /\ svc.pc = "idle"
    /\ \E k \in 1..(Len(svc.points[1]) + 1) :
          svc' = [svc EXCEPT !.k = k, !.pc = "build"]
    /\ SvcFrame

\* search_index_pytorch(points[i], query[i], k), lines 65-79: a new index that
\* holds points[i]
SvcBuild ==
    /\ svc.pc = "build"
    /\ IF SvcIsCuda /\ ~GPU_RES_bound(svc.cuda)
       THEN svc' = [svc EXCEPT !.pc = "failed", !.raised = "NameError"]
       ELSE svc' = [svc EXCEPT
                      !.index = index_add(new_index(svc.dev, svc.dev),
                                          svc.points[svc.i + 1]),
                      !.pc = IF SvcIsCuda THEN "sync1" ELSE "search",
                      !.log = SvcLog("build")]
    /\ SvcFrame

\* torch.cuda.synchronize(), lines 81-82 and 88-89
SvcBarrier ==
    /\ svc.pc \in {"sync1", "sync2"}
    /\ svc' = [svc EXCEPT !.pc = IF svc.pc = "sync1" THEN "search" ELSE "reset",
                          !.log = SvcLog("barrier")]
    /\ SvcFrame

\* lines 83-87
SvcSearch ==
    /\ svc.pc = "search"
    /\ \E r \in index_search(svc.index, svc.query[svc.i + 1], svc.k) :
          svc' = [svc EXCEPT !.found = r,
                             !.pc = IF SvcIsCuda THEN "sync2" ELSE "reset",
                             !.log = SvcLog("search")]
    /\ SvcFrame

\* lines 90-91
SvcReset ==
    /\ svc.pc = "reset"
    /\ svc' = [svc EXCEPT !.index = index_reset(svc.index), !.pc = "stream",
                          !.log = SvcLog("reset")]
    /\ SvcFrame

\* line 110: GPU_RES.syncDefaultStreamCurrentDevice()
SvcStreamSync ==
    /\ svc.pc = "stream"
    /\ svc' = IF GPU_RES_bound(svc.cuda)
              THEN [svc EXCEPT !.pc = "append"]
              ELSE [svc EXCEPT !.pc = "failed", !.raised = "NameError"]
    /\ SvcFrame

\* lines 111-112 and the loop of line 108
SvcAppend ==
    /\ svc.pc = "append"
    /\ svc' = [svc EXCEPT
                 !.index_batch = Append(svc.index_batch, svc.found.I),
                 !.distance_batch = Append(svc.distance_batch, svc.found.D),
                 !.found = None,
                 !.log = SvcLog("results"),
                 !.i = svc.i + 1,
                 !.pc = IF svc.i + 1 < SvcB THEN "build" ELSE "stack"]
    /\ SvcFrame

\* lines 115-118: KNN.forward returns index_batch, distance_batch
SvcReturn ==
    /\ svc.pc = "stack"
    /\ svc' = [svc EXCEPT !.ret = [index_batch |-> svc.index_batch,
                                   distance_batch |-> svc.distance_batch],
                          !.pc = "gather"]
    /\ SvcFrame

\* faiss_knn, lines 146-157
SvcGather ==
    /\ svc.pc = "gather"
    /\ \E g \in gather_neighbors(svc.dev, svc.points, svc.ret.index_batch) :
          svc' = IF g.raised # "no"
                 THEN [svc EXCEPT !.pc = "failed", !.raised = g.raised]
                 ELSE [svc EXCEPT !.pc = "done",
                          !.out = [neighbor_points |-> g.neighbor_points,
                                   index_batch |-> svc.ret.index_batch,
                                   distance_batch |-> svc.ret.distance_batch]]
    /\ SvcFrame

SvcNext ==
    \/ SvcCall
    \/ SvcBuild
    \/ SvcBarrier
    \/ SvcSearch
    \/ SvcReset
    \/ SvcStreamSync
    \/ SvcAppend
    \/ SvcReturn
    \/ SvcGather

SpecSvc == SvcInit /\ [][SvcNext]_vars

(***************************************************************************)
(* C15: with no accelerator available and all tensors on the host, the     *)
(* index-service search completes and returns index and distance tensors   *)
(* of shape B x M x k, touching only resources initialised in that         *)
(* environment: the call never raises, and what KNN.forward returns has    *)
(* one row of k entries per batch element.                                 *)
(***************************************************************************)
C15_HostSearchCompletes ==
    (~svc.cuda /\ svc.dev = "cpu")
    => /\ svc.raised = "no"
       /\ svc.ret # None
          => /\ Len(svc.ret.index_batch) = SvcB
             /\ \A b \in 1..SvcB : Len(svc.ret.index_batch[b]) = svc.k

\* the operations recorded so far are searches of the index service
SvcSearched == \E n \in 1..Len(svc.log) : svc.log[n].op = "search"

(***************************************************************************)
(* C16: a neighbor search with k larger than the number of points N fails  *)
(* immediately, before any index, distance or neighbor tensor is returned  *)
(* and without a result being silently coerced; here for the index-service *)
(* mode: with k > N no search is run, KNN.forward returns nothing and      *)
(* faiss_knn returns nothing.                                              *)
(***************************************************************************)
C16_TooLargeKFailsAtOnce ==
    svc.k > Len(svc.points[1])
    => /\ ~SvcSearched
       /\ svc.ret = None
       /\ svc.out = None

\* the operations of batch element i (0-based), in order
SvcExpected(i) ==
    LET ev(op) == [op |-> op, i |-> i,
                   held |-> IF op = "search" THEN svc.points[i + 1] ELSE None]
    IN  IF svc.dev = "cuda"
        THEN <<ev("build"), ev("barrier"), ev("search"), ev("barrier"),
               ev("reset"), ev("results")>>
        ELSE <<ev("build"), ev("search"), ev("reset"), ev("results")>>

RECURSIVE SvcExpectedLog(_)
SvcExpectedLog(n) ==
    IF n = 0 THEN <<>> ELSE SvcExpectedLog(n - 1) \o SvcExpected(n - 1)

IsPrefix(s, t) == Len(s) <= Len(t) /\ SubSeq(t, 1, Len(s)) = s

(***************************************************************************)
(* C20: KNN.forward handles the batch elements serially in increasing      *)
(* order, each as build of a fresh index holding exactly points[i],        *)
(* (barrier in accelerator mode), search with query[i], (barrier in        *)
(* accelerator mode), reset; the index of element i+1 is built only after  *)
(* the results of element i are complete, and the index searched for       *)
(* element i holds the points of element i and no others.  The operations  *)
(* performed so far are always an initial part of that sequence.           *)
(***************************************************************************)
C20_SerialBuildSearchReset ==
    IsPrefix(svc.log, SvcExpectedLog(SvcB))

\* an accelerator run over two batch elements of different points, complete
C20_Witness_TwoElements ==
    /\ svc.dev = "cuda"
    /\ SvcB = 2
    /\ svc.points[1] # svc.points[2]
    /\ svc.ret # None
    /\ Len(svc.log) = 12

(***************************************************************************)
(* operations.py: GroupingOperation (lines 307-346) and QueryAndGroup      *)
(* (352-403), B = 1 and one center per call.  A feature map is B x C x N,  *)
(* a grouped tensor B x C x npoint x nsample.  The native kernel           *)
(* sampling.group_points is not part of the Python sources; it is modelled *)
(* from section 4.4 of the design as the gather of the feature columns     *)
(* named by idx.                                                           *)
(***************************************************************************)
\* sampling.group_points(features, idx): out[b][c][m][j] = features[b][c][idx[b][m][j]]
sampling_group_points(features, idx) ==
    [b \in 1..Len(features) |-> [c \in 1..Len(features[b]) |->
        [m \in 1..Len(idx[b]) |-> [j \in 1..Len(idx[b][m]) |->
            features[b][c][idx[b][m][j] + 1]]]]]

\* GroupingOperation.forward(ctx, features, idx), lines 322-327
GroupingOperation_forward(features, idx) == sampling_group_points(features, idx)

\* xyz.transpose(1, 2): B x N x 3 to B x 3 x N
transpose12(t) ==
    [b \in 1..Len(t) |-> [c \in 1..Len(t[b][1]) |-> [n \in 1..Len(t[b]) |->
        t[b][n][c]]]]

\* variant: the grouped coordinates are left as they are
subtract_centers_Skip(grouped_xyz, new_xyz) == grouped_xyz

\* line 387: grouped_xyz -= new_xyz.transpose(1, 2).unsqueeze(-1)
subtract_centers(grouped_xyz, new_xyz) ==
    [b \in 1..Len(grouped_xyz) |-> [c \in 1..Len(grouped_xyz[b]) |->
        [m \in 1..Len(grouped_xyz[b][c]) |->
            [j \in 1..Len(grouped_xyz[b][c][m]) |->
                grouped_xyz[b][c][m][j] - new_xyz[b][m][c]]]]]

\* torch.cat([t1, t2], dim=1)
cat_dim1(t1, t2) == [b \in 1..Len(t1) |-> t1[b] \o t2[b]]

\* QueryAndGroup.forward(self, xyz, new_xyz, features), lines 383-403: the
\* possible results, one per row ball_query may return
QueryAndGroup_forward(radius, nsample, use_xyz, xyz, new_xyz, features) ==
    { LET grouped_xyz ==
              subtract_centers(GroupingOperation_forward(transpose12(xyz), idx),
                               new_xyz)
      IN  IF features # None
          THEN LET grouped_features == GroupingOperation_forward(features, idx)
               IN  [raised |-> "no", idx |-> idx,
                    new_features |-> IF use_xyz
                                     THEN cat_dim1(grouped_xyz, grouped_features)
                                     ELSE grouped_features]
          ELSE IF use_xyz
               THEN [raised |-> "no", idx |-> idx, new_features |-> grouped_xyz]
               ELSE [raised |-> "AssertionError", idx |-> idx,
                     new_features |-> None] :
      idx \in BallQuery_forward(radius, nsample, xyz, new_xyz) }

QgMaxC == 2         \* feature channels: C in 1..QgMaxC, or no feature map

\* the feature maps: entry (c, n) carries the value 10 c + n
QgFeatures(N) ==
    {None} \cup { << [c \in 1..C |-> [n \in 1..N |-> 10 * c + n]] >> :
                  C \in 1..QgMaxC }

QgFrame == UNCHANGED <<baseVars, knnPair, fps, ball, svc, svd>>

\* QueryAndGroup(radius, nsample, use_xyz), lines 363-365
QgInit ==
    /\ BaseParked
    /\ knnPair = None /\ fps = None /\ ball = None /\ svc = None /\ svd = None
    /\ \E radius \in BallRadii : \E nsample \in 1..BallMaxSample :
       \E use_xyz \in BOOLEAN :
          qg = [radius |-> radius, nsample |-> nsample, use_xyz |-> use_xyz,
                call |-> None]

\* new_features = self(xyz, new_xyz, features)
QgForward ==
    /\ qg.call = None
    /\ \E inp \in BallInputs : \E features \in QgFeatures(Len(inp.xyz[1])) :
       \E r \in QueryAndGroup_forward(qg.radius, qg.nsample, qg.use_xyz,
                                      inp.xyz, inp.new_xyz, features) :
          qg' = [qg EXCEPT !.call = [xyz |-> inp.xyz, new_xyz |-> inp.new_xyz,
                                     features |-> features, result |-> r]]
    /\ QgFrame

QgNext == QgForward

SpecQg == QgInit /\ [][QgNext]_vars

\* the number of channels of the feature map of the last call, 0 for none
QgC == IF qg.call.features = None THEN 0 ELSE Len(qg.call.features[1])

\* channel c of the result is coordinate c of the grouped points minus the center
QgIsOffset(c) ==
    \A j \in 1..qg.nsample :
        qg.call.result.new_features[1][c][1][j]
            = qg.call.xyz[1][qg.call.result.idx[1][1][j] + 1][c]
              - qg.call.new_xyz[1][1][c]

(***************************************************************************)
(* C17: QueryAndGroup.forward fails if and only if no feature map is       *)
(* supplied and use_xyz is false; otherwise it returns a grouped tensor    *)
(* with 3 + C channels (features, use_xyz), C channels (features, not      *)
(* use_xyz) or 3 channels (no features, use_xyz), where the 3 coordinate   *)
(* channels are the grouped coordinates minus the center.                  *)
(***************************************************************************)
C17_FailsIffNothingToGroup ==
    qg.call # None
    => /\ qg.call.result.raised # "no" <=> (qg.call.features = None /\ ~qg.use_xyz)
       /\ qg.call.result.raised = "no"
          => /\ Len(qg.call.result.new_features[1])
                  = (IF qg.use_xyz THEN 3 ELSE 0) + QgC
             /\ qg.use_xyz => \A c \in 1..3 : QgIsOffset(c)

\* features and coordinates grouped together around a center off the origin
C17_Witness_Concatenated ==
    /\ qg.call # None
    /\ qg.use_xyz
    /\ qg.call.features # None
    /\ qg.call.new_xyz[1][1] # <<0, 0, 0>>
    /\ qg.call.result.raised = "no"
    /\ Len(qg.call.result.new_features[1]) = 3 + QgC

(***************************************************************************)
(* operations.py: BatchSVDFunction.forward (lines 410-423) and batch_svd   *)
(* (437-448), stepped statement by statement.  A tensor is its shape and   *)
(* its device; the values of the decomposition, computed by the native     *)
(* kernel linalg.batch_svd_forward, are not modelled.  cuda is             *)
(* torch.cuda.is_available().                                              *)
(***************************************************************************)
\* bool(RuntimeError): a class object is true
truthy_RuntimeError == TRUE

\* lines 412-413: if not torch.cuda.is_available(): assert(RuntimeError), "..."
\* raises iff the asserted expression is false
precondition_raises(cuda) == ~cuda /\ ~truthy_RuntimeError

\* line 414: x.cuda() raises when torch cannot reach an accelerator
to_cuda(x, cuda) ==
    IF cuda THEN [raised |-> "no", x |-> [x EXCEPT !.device = "cuda"]]
    ELSE [raised |-> "CudaUnavailable", x |-> None]

\* lines 415-418: linalg.batch_svd_forward(x, True, 1e-7, 100) and the slices,
\* x of shape B x M x N: U is B x M x k, S is B x k, V is B x N x k
batch_svd_shapes(x) ==
    LET k == Min2(x.shape[2], x.shape[3])
    IN  [U |-> [shape |-> <<x.shape[1], x.shape[2], k>>, device |-> x.device],
         S |-> [shape |-> <<x.shape[1], k>>, device |-> x.device],
         V |-> [shape |-> <<x.shape[1], x.shape[3], k>>, device |-> x.device]]

\* lines 420-422: .to(ctx.device)
to_device(t, device) == [t EXCEPT !.device = device]

SvdMaxDim == 3      \* every dimension of x is in 1..SvdMaxDim

SvdInputs ==
    { [shape |-> sh, device |-> "cpu"] :
        sh \in UNION { [1..r -> 1..SvdMaxDim] : r \in {2, 3} } }
    \cup { [shape |-> sh, device |-> "cuda"] : sh \in [1..3 -> 1..SvdMaxDim] }

SvdFrame == UNCHANGED <<baseVars, knnPair, fps, ball, svc, qg>>

SvdInit ==
    /\ BaseParked
    /\ knnPair = None /\ fps = None /\ ball = None /\ svc = None /\ qg = None
    /\ \E cuda \in BOOLEAN :
          svd = [cuda |-> cuda, pc |-> "idle", x |-> None, ctx_device |-> "",
                 kernel_called |-> FALSE, usv |-> None, result |-> None,
                 raised |-> "no", line |-> 0]

\* batch_svd(x), lines 447-448; a tensor is on the accelerator only if there
\* is one
SvdCall ==
    /\ svd.pc = "idle"
    /\ \E x \in SvdInputs :
          /\ x.device = "cuda" => svd.cuda
          /\ svd' = IF Len(x.shape) # 3
                    THEN [svd EXCEPT !.x = x, !.pc = "failed",
                                     !.raised = "AssertionError", !.line = 447]
                    ELSE [svd EXCEPT !.x = x, !.pc = "precondition"]
    /\ SvdFrame

\* lines 411-413
SvdPrecondition ==
    /\ svd.pc = "precondition"
    /\ svd' = IF precondition_raises(svd.cuda)
              THEN [svd EXCEPT !.pc = "failed", !.raised = "AssertionError",
                               !.line = 413]
              ELSE [svd EXCEPT !.ctx_device = svd.x.device, !.pc = "to_cuda"]
    /\ SvdFrame

\* line 414
SvdToCuda ==
    /\ svd.pc = "to_cuda"
    /\ LET r == to_cuda(svd.x, svd.cuda)
       IN  svd' = IF r.raised # "no"
                  THEN [svd EXCEPT !.pc = "failed", !.raised = r.raised,
                                   !.line = 414]
                  ELSE [svd EXCEPT !.x = r.x, !.pc = "kernel"]
    /\ SvdFrame

\* lines 415-419
SvdKernel ==
    /\ svd.pc = "kernel"
    /\ svd' = [svd EXCEPT !.kernel_called = TRUE,
                          !.usv = batch_svd_shapes(svd.x), !.pc = "return"]
    /\ SvdFrame

\* lines 420-423
SvdReturn ==
    /\ svd.pc = "return"
    /\ svd' = [svd EXCEPT !.result = [U |-> to_device(svd.usv.U, svd.ctx_device),
                                      S |-> to_device(svd.usv.S, svd.ctx_device),
                                      V |-> to_device(svd.usv.V, svd.ctx_device)],
                          !.pc = "done"]
    /\ SvdFrame

SvdNext ==
    \/ SvdCall
    \/ SvdPrecondition
    \/ SvdToCuda
    \/ SvdKernel
    \/ SvdReturn

SpecSvd == SvdInit /\ [][SvdNext]_vars

(***************************************************************************)
(* C18: when no accelerator is available, batch_svd fails fast: the        *)
(* forward raises at its accelerator precondition, so control never passes *)
(* the precondition, the native kernel is not invoked and no result is     *)
(* returned.                                                               *)
(***************************************************************************)
C18_FailsAtPrecondition ==
    ~svd.cuda
    => /\ svd.pc \in {"idle", "precondition", "failed"}
       /\ svd.pc = "failed" => svd.line \in {447, 413}
       /\ ~svd.kernel_called
       /\ svd.result = None

\* what face f of the last call contributes when the query is at no vertex:
\* in-face rule first, then sign underflow, then the general formula
Mvc3Contribution(f) ==
    LET geo == mvc3.inp.geo
    IN  IF \E g \in 1..Len(geo.inside) : geo.inside[g]
        THEN IF geo.inside[f] THEN geo.tri[f] ELSE <<Zero, Zero, Zero>>
        ELSE IF geo.under[f] THEN <<Zero, Zero, Zero>> ELSE geo.general[f]

(***************************************************************************)
(* C19: in mean_value_coordinates_3D the degenerate rules apply with the   *)
(* precedence vertex-coincidence over in-face over sign-underflow.  For a  *)
(* query at a vertex no face contributes: the row, before normalization,   *)
(* is 1 at the coincident vertices and 0 elsewhere.  Otherwise, if the     *)
(* query is flagged inside some face, exactly the faces flagged inside     *)
(* contribute, with the in-face weights even when their sign term          *)
(* underflows, and every other face contributes 0; otherwise a face whose  *)
(* sign term underflows contributes 0 and the others the general formula.  *)
(***************************************************************************)
C19_DegeneratePrecedence ==
    mvc3.result # None
    => IF Mvc3Coincident # {}
       THEN Mvc3Returned
            => \A n \in 1..Len(mvc3.inp.vertices) :
                  mvc3.result.raw[n] = IF n \in Mvc3Coincident THEN One ELSE Zero
       ELSE \A f \in 1..Len(mvc3.inp.faces) :
               mvc3.result.wi[f] = Mvc3Contribution(f)

\* two faces, the query at no vertex: one face flagged inside whose sign term
\* also underflows, the other neither; the first contributes its in-face
\* weights, the second nothing
C19_Witness_InsideAndUnderflow ==
    /\ Mvc3Returned
    /\ Mvc3Coincident = {}
    /\ Len(mvc3.inp.faces) = 2
    /\ mvc3.inp.geo.inside[1] /\ mvc3.inp.geo.under[1]
    /\ ~mvc3.inp.geo.inside[2] /\ ~mvc3.inp.geo.under[2]
    /\ mvc3.result.wi[1] = mvc3.inp.geo.tri[1]
    /\ mvc3.result.wi[2] = <<Zero, Zero, Zero>>
    /\ mvc3.inp.geo.general[2] # <<Zero, Zero, Zero>>

\* call i of the log went into the assembly branch and did not complete it
CotFailedAssembly(i) ==
    log[i].sawNone /\ log[i].outcome \in {"AssertionError", "NameError"}

(***************************************************************************)
(* C21: if assembly fails during a CotLaplacian forward call               *)
(* (computeLaplacian raises, or the call is made with F absent), the       *)
(* cached operator stays unset: as long as no call has completed an        *)
(* assembly, self.L is None, nothing unfinished is ever stored, a failed   *)
(* call stores nothing, and every call made so far found the operator      *)
(* unset and attempted the assembly again.                                 *)
(***************************************************************************)
C21_FailedAssemblyLeavesUnset ==
    /\ writers = {} => L = None
    /\ \A i \in 1..Len(log) :
          /\ CotFailedAssembly(i) => ~log[i].assembled
          /\ (\A j \in 1..(i - 1) : ~log[j].assembled) => log[i].sawNone

\* a call without faces fails the assertion, a call with faces fails inside
\* computeLaplacian, and the third call finds the operator unset and tries again
C21_Witness_RetryAfterFailures ==
    /\ Len(log) = 3
    /\ log[1].outcome = "AssertionError"
    /\ log[2].outcome = "NameError" /\ log[2].hadF
    /\ log[3].sawNone /\ log[3].hadF
    /\ L = None
====
